---- MODULE Spec2Model ----
(***************************************************************************)
(* Destination resolution of the Nouakchott destination backend:           *)
(* normalizeText, generateNGrams, similarity, containsSimilarity and the   *)
(* three-stage resolveDestination (fuzzy -> matchWithLLM ->                *)
(* searchGoogleMaps).                                                      *)
(*                                                                         *)
(* Strings are sequences of characters.  A character is a one-element      *)
(* TLA+ string; Arabic letters are written in Buckwalter transliteration   *)
(*   n=noon b=ba g=ghain y=ya m=meem $=sheen l=lam r=ra w=waw H=hah        *)
(*   t=ta d=dal k=kaf S=sad j=jeem h=ha A=alif                             *)
(*   >=alif-hamza-above <=alif-hamza-below |=alif-madda {=alif-wasla       *)
(*   Y=alif-maqsura p=ta-marbuta _=tatweel a=fatha ~=shadda ^=dagger-alif  *)
(* and a Latin letter is written with a leading slash ("/K", "/k").        *)
(* Scores are exact fractions <<numerator, denominator>>, denominator > 0. *)
(* The code computes them as doubles, 1 - distance / maxLength and that     *)
(* times 0.9; for strings shorter than 60 characters the doubles compare    *)
(* with 0.75, 0.95 and 1 as the exact fractions do, and two scores compare  *)
(* differently only when the exact fractions are equal.                     *)
(* A loop is a RECURSIVE operator; it tests a value of each iteration (a    *)
(* denominator, a length: tests that never fail) so that the iteration is  *)
(* evaluated before the next one starts.                                   *)
(***************************************************************************)
EXTENDS Integers, Sequences, FiniteSets, TLC

-----------------------------------------------------------------------------
(* Characters and strings *)

SP == " "
TAB == "\t"

\* what \s and String.prototype.trim treat as white space
Whitespace == {SP, TAB}

EmptyStr == << >>

RECURSIVE JoinWith(_, _)
\* Array.prototype.join(sep)
JoinWith(parts, sep) ==
    IF Len(parts) = 0 THEN EmptyStr
    ELSE IF Len(parts) = 1 THEN parts[1]
    ELSE parts[1] \o sep \o JoinWith(Tail(parts), sep)

\* String.prototype.startsWith
StartsWith(text, prefix) ==
    /\ Len(prefix) <= Len(text)
    /\ SubSeq(text, 1, Len(prefix)) = prefix

\* String.prototype.includes
Includes(haystack, needle) ==
    \E i \in 1..(Len(haystack) - Len(needle) + 1) :
        SubSeq(haystack, i, i + Len(needle) - 1) = needle

RECURSIVE TrimStart(_)
TrimStart(s) ==
    IF Len(s) > 0 /\ Head(s) \in Whitespace THEN TrimStart(Tail(s)) ELSE s

RECURSIVE TrimEnd(_)
TrimEnd(s) ==
    IF Len(s) > 0 /\ s[Len(s)] \in Whitespace
    THEN TrimEnd(SubSeq(s, 1, Len(s) - 1))
    ELSE s

\* String.prototype.trim
Trim(s) == TrimEnd(TrimStart(s))

\* String.prototype.toLowerCase on one character: only Latin letters have case
LowerChar(c) ==
    CASE c = "/K" -> "/k"
      [] c = "/S" -> "/s"
      [] c = "/L" -> "/l"
      [] c = "/T" -> "/t"
      [] OTHER -> c

toLowerCase(s) == [i \in 1..Len(s) |-> LowerChar(s[i])]

RECURSIVE SplitWhitespace(_)
\* String.prototype.split(/\s+/): the pieces between maximal white-space runs,
\* empty pieces at the ends included
SplitWhitespace(s) ==
    IF \A i \in 1..Len(s) : s[i] \notin Whitespace THEN <<s>>
    ELSE LET i == CHOOSE k \in 1..Len(s) :
                      /\ s[k] \in Whitespace
                      /\ \A m \in 1..(k - 1) : s[m] \notin Whitespace
         IN  <<SubSeq(s, 1, i - 1)>>
                 \o SplitWhitespace(TrimStart(SubSeq(s, i, Len(s))))

RECURSIVE CollapseWhitespace(_)
\* text.replace(/\s+/g, ' ')
CollapseWhitespace(s) ==
    IF Len(s) = 0 THEN s
    ELSE IF Head(s) \in Whitespace
         THEN <<SP>> \o CollapseWhitespace(TrimStart(s))
         ELSE <<Head(s)>> \o CollapseWhitespace(Tail(s))

-----------------------------------------------------------------------------
(* normalization.ts *)

nbgy == <<"n", "b", "g", "y">>
nby == <<"n", "b", "y">>
hamza_bgy == <<">", "b", "g", "y">>
bAgy == <<"b", "A", "g", "y">>
bgyt == <<"b", "g", "y", "t">>
nmshy == <<"n", "m", "$", "y">>
nrwH == <<"n", "r", "w", "H">>
wdyny == <<"w", "d", "y", "n", "y">>
lam == <<"l">>
lam_tatweel == <<"l", "_">>

Phrase(words) == JoinWith(words, <<SP>>)

INTENT_PHRASES == <<
    Phrase(<<nbgy, nmshy>>),
    Phrase(<<nby, nmshy>>),
    Phrase(<<nbgy, nmshy, lam_tatweel>>),
    Phrase(<<nbgy, nmshy, lam>>),
    Phrase(<<hamza_bgy, nmshy>>),
    Phrase(<<bAgy, nmshy>>),
    Phrase(<<bAgy, nrwH>>),
    Phrase(<<nbgy, nrwH>>),
    Phrase(<<hamza_bgy, nrwH>>),
    Phrase(<<bgyt, nmshy>>),
    Phrase(<<bgyt, nrwH>>),
    Phrase(<<nmshy, lam_tatweel>>),
    Phrase(<<nmshy, lam>>),
    Phrase(<<nrwH, lam_tatweel>>),
    Phrase(<<nrwH, lam>>),
    wdyny,
    Phrase(<<wdyny, lam_tatweel>>),
    Phrase(<<wdyny, lam>>) >>

\* the code points U+064B..U+065F and U+0670 (fatha, shadda, dagger alif here)
Diacritics == {"a", "~", "^"}

removeDiacritics(text) == SelectSeq(text, LAMBDA c : c \notin Diacritics)

ArabicChar(c) ==
    CASE c \in {">", "<", "|", "{"} -> "A"
      [] c = "Y" -> "y"
      [] c = "p" -> "h"
      [] OTHER -> c

normalizeArabicChars(text) ==
    SelectSeq([i \in 1..Len(text) |-> ArabicChar(text[i])],
              LAMBDA c : c /= "_")

RECURSIVE InsertByLength(_, _)
\* insert p after every phrase at least as long (a stable sort, longest first)
InsertByLength(sorted, p) ==
    IF Len(sorted) = 0 THEN <<p>>
    ELSE IF Len(Head(sorted)) >= Len(p)
         THEN <<Head(sorted)>> \o InsertByLength(Tail(sorted), p)
         ELSE <<p>> \o sorted

RECURSIVE SortByLengthDesc(_)
\* [...phrases].sort((a, b) => b.length - a.length)
SortByLengthDesc(phrases) ==
    IF Len(phrases) = 0 THEN << >>
    ELSE InsertByLength(SortByLengthDesc(SubSeq(phrases, 1, Len(phrases) - 1)),
                        phrases[Len(phrases)])

sortedPhrases == SortByLengthDesc(INTENT_PHRASES)

\* result.replace(regex, '') with regex = ^phrase\s* and flag i
StripPhrase(text, phrase) ==
    IF StartsWith(toLowerCase(text), toLowerCase(phrase))
    THEN TrimStart(SubSeq(text, Len(phrase) + 1, Len(text)))
    ELSE text

RECURSIVE StripPhrases(_, _)
StripPhrases(text, phrases) ==
    LET stripped == StripPhrase(text, Head(phrases))
    IN  IF Len(phrases) = 0 THEN text
        ELSE IF Len(stripped) >= 0 THEN StripPhrases(stripped, Tail(phrases))
        ELSE text

removeIntentPhrases(text) == StripPhrases(text, sortedPhrases)

normalizeText(input) ==
    IF Len(input) = 0 THEN EmptyStr
    ELSE Trim(CollapseWhitespace(removeIntentPhrases(
             normalizeArabicChars(removeDiacritics(toLowerCase(Trim(input)))))))

RECURSIVE NGramsOfLengthShort(_, _, _)
\* the inner loop with i < tokens.length - n
NGramsOfLengthShort(tokens, n, from) ==
    IF from >= Len(tokens) - n THEN << >>
    ELSE <<JoinWith(SubSeq(tokens, from + 1, from + n), <<SP>>)>>
             \o NGramsOfLengthShort(tokens, n, from + 1)

RECURSIVE NGramsOfLength(_, _, _)
\* the inner loop: i = from .. tokens.length - n
NGramsOfLength(tokens, n, from) ==
    IF from > Len(tokens) - n THEN << >>
    ELSE <<JoinWith(SubSeq(tokens, from + 1, from + n), <<SP>>)>>
             \o NGramsOfLength(tokens, n, from + 1)

RECURSIVE NGramsFromBelow(_, _, _)
\* the outer loop with n < Math.min(maxN, tokens.length)
NGramsFromBelow(tokens, maxN, n) ==
    IF n >= maxN \/ n >= Len(tokens) THEN << >>
    ELSE NGramsOfLength(tokens, n, 0) \o NGramsFromBelow(tokens, maxN, n + 1)

RECURSIVE NGramsFrom(_, _, _)
\* the outer loop: n .. Math.min(maxN, tokens.length)
NGramsFrom(tokens, maxN, n) ==
    IF n > maxN \/ n > Len(tokens) THEN << >>
    ELSE NGramsOfLength(tokens, n, 0) \o NGramsFrom(tokens, maxN, n + 1)

RECURSIVE NGramsAtOffset(_, _, _, _)
\* the spans of length n, n + 1, ... that start at offset i
NGramsAtOffset(tokens, maxN, i, n) ==
    IF n > maxN \/ i + n > Len(tokens) THEN << >>
    ELSE <<JoinWith(SubSeq(tokens, i + 1, i + n), <<SP>>)>>
             \o NGramsAtOffset(tokens, maxN, i, n + 1)

RECURSIVE NGramsByOffset(_, _, _)
NGramsByOffset(tokens, maxN, i) ==
    IF i >= Len(tokens) THEN << >>
    ELSE NGramsAtOffset(tokens, maxN, i, 1)
             \o NGramsByOffset(tokens, maxN, i + 1)

\* the two loops swapped: the start offset outside, the span length inside
generateNGramsByOffset(tokens, maxN) == NGramsByOffset(tokens, maxN, 0)

generateNGrams(tokens, maxN) == NGramsFrom(tokens, maxN, 1)

-----------------------------------------------------------------------------
(* similarity.ts *)

\* a score n/d as the pair <<n, d>>, d > 0
Frac(n, d) == <<n, d>>
Zero == Frac(0, 1)
One == Frac(1, 1)
FGe(x, y) == x[1] * y[2] >= y[1] * x[2]
FGt(x, y) == x[1] * y[2] > y[1] * x[2]
FEq(x, y) == x[1] * y[2] = y[1] * x[2]
FMul(x, y) == Frac(x[1] * y[1], x[2] * y[2])
\* Math.max(x, y)
FMax(x, y) == IF FGt(y, x) THEN y ELSE x

Min3(x, y, z) ==
    IF x <= y /\ x <= z THEN x ELSE IF y <= z THEN y ELSE z

RECURSIVE LevRowNoSubstitution(_, _, _, _, _)
\* the row with Math.min(deletion, insertion) only: a substitution costs 2
LevRowNoSubstitution(str1, str2, i, prev, row) ==
    LET j == Len(row)
        cell == IF str1[i] = str2[j]
                THEN prev[j]
                ELSE Min3(prev[j + 1] + 1, row[j] + 1, prev[j] + 2)
    IN  IF j > Len(str2) THEN row
        ELSE IF cell >= 0
        THEN LevRowNoSubstitution(str1, str2, i, prev, Append(row, cell))
        ELSE row

RECURSIVE LevRow(_, _, _, _, _)
\* row i of the dp table, dp[i][0..len2], built left to right from row i-1:
\* row holds dp[i][0..j-1] when dp[i][j] is computed
LevRow(str1, str2, i, prev, row) ==
    LET j == Len(row)
        cell == IF str1[i] = str2[j]
                THEN prev[j]
                ELSE Min3(prev[j + 1] + 1, row[j] + 1, prev[j] + 1)
    IN  IF j > Len(str2) THEN row
        ELSE IF cell >= 0 THEN LevRow(str1, str2, i, prev, Append(row, cell))
        ELSE row

RECURSIVE LevRows(_, _, _, _)
LevRows(str1, str2, i, prev) ==
    LET row == LevRow(str1, str2, i, prev, <<i>>)
    IN  IF i > Len(str1) THEN prev
        ELSE IF Len(row) > 0 THEN LevRows(str1, str2, i + 1, row)
        ELSE prev

\* dp[len1][len2]; a row is the sequence dp[i][0], ..., dp[i][len2]
levenshteinDistance(str1, str2) ==
    LevRows(str1, str2, 1, [j \in 1..(Len(str2) + 1) |-> j - 1])[Len(str2) + 1]

\* similarity without its first test, if (!str1 || !str2) return 0
similarityUnguarded(str1, str2) ==
    IF str1 = str2 THEN One
    ELSE LET distance == levenshteinDistance(str1, str2)
             maxLength == IF Len(str1) >= Len(str2) THEN Len(str1) ELSE Len(str2)
         IN  FMax(Zero, Frac(maxLength - distance, maxLength))

\* similarity with maxLength = str1.length
similarityByFirstLength(str1, str2) ==
    IF Len(str1) = 0 \/ Len(str2) = 0 THEN Zero
    ELSE IF str1 = str2 THEN One
    ELSE LET distance == levenshteinDistance(str1, str2)
             score == Frac(Len(str1) - distance, Len(str1))
         IN  FMax(Zero, score)

similarity(str1, str2) ==
    IF Len(str1) = 0 \/ Len(str2) = 0 THEN Zero
    ELSE IF str1 = str2 THEN One
    ELSE LET distance == levenshteinDistance(str1, str2)
             maxLength == IF Len(str1) >= Len(str2) THEN Len(str1) ELSE Len(str2)
             score == Frac(maxLength - distance, maxLength)
         IN  FMax(Zero, score)

RECURSIVE MaxTokenScore(_, _, _)
\* for (const token of haystackTokens) maxScore = Math.max(maxScore, score)
MaxTokenScore(haystackTokens, needleToken, maxScore) ==
    LET score == similarity(Head(haystackTokens), needleToken)
        newMax == FMax(maxScore, score)
    IN  IF Len(haystackTokens) = 0 THEN maxScore
        ELSE IF newMax[2] > 0
        THEN MaxTokenScore(Tail(haystackTokens), needleToken, newMax)
        ELSE maxScore

RECURSIVE MaxWindowScoreShort(_, _, _, _, _)
\* the loop with i < haystackTokens.length - needleTokens.length
MaxWindowScoreShort(haystackTokens, needle, width, i, maxScore) ==
    LET window == JoinWith(SubSeq(haystackTokens, i + 1, i + width), <<SP>>)
        score == similarity(window, needle)
        newMax == FMax(maxScore, score)
    IN  IF i >= Len(haystackTokens) - width THEN maxScore
        ELSE IF newMax[2] > 0
        THEN MaxWindowScoreShort(haystackTokens, needle, width, i + 1, newMax)
        ELSE maxScore

RECURSIVE MaxWindowScore(_, _, _, _, _)
\* for (i = 0; i <= haystackTokens.length - needleTokens.length; i++) ...
MaxWindowScore(haystackTokens, needle, width, i, maxScore) ==
    LET window == JoinWith(SubSeq(haystackTokens, i + 1, i + width), <<SP>>)
        score == similarity(window, needle)
        newMax == FMax(maxScore, score)
    IN  IF i > Len(haystackTokens) - width THEN maxScore
        ELSE IF newMax[2] > 0
        THEN MaxWindowScore(haystackTokens, needle, width, i + 1, newMax)
        ELSE maxScore

EXACT_SUBSTRING == Frac(95, 100)
PENALTY == Frac(9, 10)

containsSimilarity(haystack, needle) ==
    IF Len(haystack) = 0 \/ Len(needle) = 0 THEN Zero
    ELSE IF Includes(haystack, needle) THEN EXACT_SUBSTRING
    ELSE LET haystackTokens == SplitWhitespace(haystack)
             needleTokens == SplitWhitespace(needle)
         IN  IF Len(needleTokens) = 1
             THEN FMul(MaxTokenScore(haystackTokens, needleTokens[1], Zero),
                       PENALTY)
             ELSE IF Len(needleTokens) <= Len(haystackTokens)
             THEN FMul(MaxWindowScore(haystackTokens, needle,
                                      Len(needleTokens), 0, Zero),
                       PENALTY)
             ELSE Zero

-----------------------------------------------------------------------------
(* destinationMatcher.ts: the local (fuzzy) scoring loop *)

CONFIDENCE_THRESHOLD == Frac(75, 100)
LLM_THRESHOLD == Frac(85, 100)
\* confidence: CONFIDENCE_THRESHOLD for an external match
GOOGLE_CONFIDENCE_AS_FUZZY == CONFIDENCE_THRESHOLD
GOOGLE_CONFIDENCE == Frac(7, 10)
\* generateNGrams(tokens, 4)
MAX_NGRAM == 4
\* id: -1 of a place built from a Google Maps result
EXTERNAL_ID == 0 - 1

\* null, as a value that compares with every DestinationMatch
Null == [kind |-> "null"]

\* a DestinationMatch; matchedBy is "absent" until the returning stage sets it
Match(place, variant, confidence, by) ==
    [kind |-> "match", place |-> place, matchedVariant |-> variant,
     confidence |-> confidence, matchedBy |-> by]

\* the update with score >= bestScore
UpdateOnTie(best, score, place, variant) ==
    IF FGe(score, best.bestScore)
    THEN [bestScore |-> score,
          bestMatch |-> Match(place, variant, score, "absent")]
    ELSE best

\* if (score > bestScore) { bestScore = score; bestMatch = {...} }
Update(best, score, place, variant) ==
    IF FGt(score, best.bestScore)
    THEN [bestScore |-> score,
          bestMatch |-> Match(place, variant, score, "absent")]
    ELSE best

RECURSIVE ScoreSpans(_, _, _, _, _)
\* Strategy 1, for (const span of candidateSpans)
ScoreSpans(spans, place, variant, normalizedVariant, best) ==
    LET spanScore == similarity(Head(spans), normalizedVariant)
        updated == Update(best, spanScore, place, variant)
    IN  IF Len(spans) = 0 THEN best
        ELSE IF updated.bestScore[2] > 0
        THEN ScoreSpans(Tail(spans), place, variant, normalizedVariant, updated)
        ELSE best

\* the body of the loop over the variants of a place
ScoreVariant(normalizedTranscript, candidateSpans, place, variant, best) ==
    LET normalizedVariant == normalizeText(variant)
        afterSpans == ScoreSpans(candidateSpans, place, variant,
                                 normalizedVariant, best)
        containsScore == containsSimilarity(normalizedTranscript,
                                            normalizedVariant)
        afterContains == Update(afterSpans, containsScore, place, variant)
        reverseContainsScore == containsSimilarity(normalizedVariant,
                                                   normalizedTranscript)
    IN  Update(afterContains, reverseContainsScore, place, variant)

RECURSIVE ScoreVariants(_, _, _, _, _)
ScoreVariants(normalizedTranscript, candidateSpans, place, variants, best) ==
    LET updated == ScoreVariant(normalizedTranscript, candidateSpans, place,
                                Head(variants), best)
    IN  IF Len(variants) = 0 THEN best
        ELSE IF updated.bestScore[2] > 0
        THEN ScoreVariants(normalizedTranscript, candidateSpans, place,
                           Tail(variants), updated)
        ELSE best

RECURSIVE ScorePlaces(_, _, _, _)
ScorePlaces(normalizedTranscript, candidateSpans, placeList, best) ==
    LET updated == ScoreVariants(normalizedTranscript, candidateSpans,
                                 Head(placeList), Head(placeList).variants,
                                 best)
    IN  IF Len(placeList) = 0 THEN best
        ELSE IF updated.bestScore[2] > 0
        THEN ScorePlaces(normalizedTranscript, candidateSpans,
                         Tail(placeList), updated)
        ELSE best

\* normalizedTranscript.split(/\s+/).filter(t => t.length > 0)
Tokens(normalizedTranscript) ==
    SelectSeq(SplitWhitespace(normalizedTranscript), LAMBDA t : Len(t) > 0)

\* bestScore and bestMatch after the loop over places and variants
LocalBest(rawTranscript, placeList) ==
    LET normalizedTranscript == normalizeText(rawTranscript)
        candidateSpans == generateNGrams(Tokens(normalizedTranscript),
                                         MAX_NGRAM)
    IN  ScorePlaces(normalizedTranscript, candidateSpans, placeList,
                    [bestScore |-> Zero, bestMatch |-> Null])

\* if (!transcript) return null
EarlyNullTranscriptOnly(rawTranscript, placeList) == Len(rawTranscript) = 0

\* if (!transcript || places.length === 0) return null
EarlyNull(rawTranscript, placeList) ==
    Len(rawTranscript) = 0 \/ Len(placeList) = 0

\* if (bestMatch && bestMatch.confidence > CONFIDENCE_THRESHOLD)
FuzzyAcceptedAbove(best) ==
    /\ best.bestMatch /= Null
    /\ FGt(best.bestMatch.confidence, CONFIDENCE_THRESHOLD)

\* if (bestMatch && bestMatch.confidence >= CONFIDENCE_THRESHOLD)
FuzzyAccepted(best) ==
    /\ best.bestMatch /= Null
    /\ FGe(best.bestMatch.confidence, CONFIDENCE_THRESHOLD)

\* return bestMatch, without bestMatch.matchedBy = 'fuzzy'
FuzzyResultUntagged(best) == best.bestMatch

\* bestMatch.matchedBy = 'fuzzy'; return bestMatch
FuzzyResult(best) == [best.bestMatch EXCEPT !.matchedBy = "fuzzy"]

-----------------------------------------------------------------------------
(* llmMatcher.ts and googleMapsSearch.ts: what the resolver sees of them *)

\* an LLMMatchResult; destinationId: null is idIsNull
LLMMatchResult(idIsNull, destinationId, confidence) ==
    [idIsNull |-> idIsNull, destinationId |-> destinationId,
     confidence |-> confidence]

\* the value matchWithLLM returns from its catch block
SAFE_FALLBACK == LLMMatchResult(TRUE, 0, Zero)

\* matchWithLLM: the whole body is one try block, so an error of the
\* completion request (a failure, a timeout, an empty or malformed answer)
\* becomes the safe fallback; otherwise the parsed answer is returned as it is
matchWithLLM(api) ==
    IF api.kind = "answer"
    THEN [kind |-> "returned", failed |-> FALSE, result |-> api.result]
    ELSE [kind |-> "returned", failed |-> TRUE, result |-> SAFE_FALLBACK]

\* searchGoogleMaps: null without an API key, on a failed request, on an
\* answer without results and on any error; otherwise the first result
searchGoogleMaps(api) ==
    IF api.kind = "found"
    THEN [kind |-> "returned", failed |-> FALSE, result |-> api.result]
    ELSE [kind |-> "returned", failed |-> api.kind = "error", result |-> Null]

\* a promise that rejects: what the catch blocks of resolveDestination are for
Threw == [kind |-> "threw", failed |-> TRUE, result |-> Null]

-----------------------------------------------------------------------------
(* destinationMatcher.ts: the two fallback stages of resolveDestination *)

\* places.find(...) ?? places[0]: an unknown id yields the first place
FindOrFirst(placeList, id) ==
    IF \E i \in 1..Len(placeList) : placeList[i].id = id
    THEN placeList[CHOOSE i \in 1..Len(placeList) :
                       /\ placeList[i].id = id
                       /\ \A k \in 1..(i - 1) : placeList[k].id /= id]
    ELSE IF Len(placeList) > 0 THEN placeList[1]
    ELSE [kind |-> "null"]

RECURSIVE Find(_, _)
\* places.find(p => p.id === id); Null for undefined
Find(placeList, id) ==
    IF Len(placeList) = 0 THEN Null
    ELSE IF Head(placeList).id = id THEN Head(placeList)
    ELSE Find(Tail(placeList), id)

\* llmResult.destinationId !== null && llmResult.confidence >= 0.6
LLMConfidentAt60(llmResult) ==
    /\ ~llmResult.idIsNull
    /\ FGe(llmResult.confidence, Frac(6, 10))

\* llmResult.destinationId !== null && llmResult.confidence >= 0.85
LLMConfident(llmResult) ==
    /\ ~llmResult.idIsNull
    /\ FGe(llmResult.confidence, LLM_THRESHOLD)

\* matchWithLLM awaited outside a try block: a rejection ends the call
AfterLLMUncaught(outcome, placeList) ==
    IF outcome.kind = "threw" THEN [next |-> "throw", value |-> Null]
    ELSE LET llmResult == outcome.result
             matchedPlace == Find(placeList, llmResult.destinationId)
         IN  IF LLMConfident(llmResult) /\ matchedPlace /= Null
             THEN [next |-> "return",
                   value |-> Match(matchedPlace, matchedPlace.canonicalName,
                                   llmResult.confidence, "llm")]
             ELSE [next |-> "google", value |-> Null]

\* the try/catch around matchWithLLM: the match to return, or Null to go on
AfterLLM(outcome, placeList) ==
    IF outcome.kind = "threw" THEN [next |-> "google", value |-> Null]
    ELSE LET llmResult == outcome.result
             matchedPlace == Find(placeList, llmResult.destinationId)
         IN  IF LLMConfident(llmResult) /\ matchedPlace /= Null
             THEN [next |-> "return",
                   value |-> Match(matchedPlace, matchedPlace.canonicalName,
                                   llmResult.confidence, "llm")]
             ELSE [next |-> "google", value |-> Null]

\* the arguments of matchWithLLM(transcript, places)
LLMCall(rawTranscript, placeList) ==
    [fn |-> "matchWithLLM", transcript |-> rawTranscript, places |-> placeList]

\* searchGoogleMaps(normalizedTranscript)
GoogleCallNormalized(rawTranscript) ==
    [fn |-> "searchGoogleMaps", transcript |-> normalizeText(rawTranscript),
     places |-> << >>]

\* the argument of searchGoogleMaps(transcript)
GoogleCall(rawTranscript) ==
    [fn |-> "searchGoogleMaps", transcript |-> rawTranscript, places |-> << >>]

\* if (!googleResult) { return { place: { ... googleResult.name ... } } }: the
\* property access on null throws into the catch block, so nothing is returned
AfterGoogleNegated(outcome, rawTranscript) ==
    [next |-> "return", value |-> [kind |-> "null"]]

\* the try/catch around searchGoogleMaps and the final return null
AfterGoogle(outcome, rawTranscript) ==
    IF outcome.kind = "threw" THEN [next |-> "return", value |-> Null]
    ELSE LET googleResult == outcome.result
         IN  IF googleResult /= Null
             THEN [next |-> "return",
                   value |-> Match([id |-> EXTERNAL_ID,
                                    canonicalName |-> googleResult.name,
                                    variants |-> <<googleResult.name,
                                                   rawTranscript>>,
                                    lat |-> googleResult.lat,
                                    lon |-> googleResult.lon],
                                   googleResult.name, GOOGLE_CONFIDENCE,
                                   "google")]
             ELSE [next |-> "return", value |-> Null]

-----------------------------------------------------------------------------
(* The inputs the model runs the resolver on *)

\* the most filler words said after the destination
MaxFill == 2

lbn == <<"l", "b", "n">>
lkSr == <<"l", "k", "S", "r">>
\* lkSr as a transcription error writes it
lkSb == <<"l", "k", "S", "b">>
twjnyn == <<"t", "w", "j", "n", "y", "n">>
\* a name of five tokens, the second written with alif-hamza
byAmdy12 == JoinWith(<<<<"b", "y">>, <<">", "m">>, <<"d", "y">>, <<"1">>,
                       <<"2">>>>, <<SP>>)
hnA == <<"h", "n", "A">>

\* places.json is a list of Place records; four of them
PlaceToujounine ==
    [id |-> 1, canonicalName |-> <<"/T", "/j">>, variants |-> <<twjnyn>>,
     lat |-> 180, lon |-> 0 - 158]
PlaceLbn ==
    [id |-> 2, canonicalName |-> <<"/L", "/b">>, variants |-> <<lbn>>,
     lat |-> 181, lon |-> 0 - 159]
PlaceKsar ==
    [id |-> 3, canonicalName |-> lkSr,
     variants |-> <<<<"A", "l", "~", "k", "S", "r">>, lkSr, <<"/K", "/S">>>>,
     lat |-> 182, lon |-> 0 - 160]
PlaceBmd ==
    [id |-> 4, canonicalName |-> <<"/b", "/m", "/d">>,
     variants |-> <<byAmdy12>>,
     lat |-> 183, lon |-> 0 - 161]

AllPlaces == <<PlaceToujounine, PlaceLbn, PlaceKsar, PlaceBmd>>

\* the gazetteers: the empty one and every prefix of AllPlaces
Gazetteers == {SubSeq(AllPlaces, 1, k) : k \in 0..Len(AllPlaces)}

\* what is said before the destination: nothing, or one of eight of the
\* intent phrases (plain, with a trailing lam, with tatweel, with alif-hamza)
Openings ==
    {EmptyStr} \cup {INTENT_PHRASES[i] : i \in {1, 3, 4, 5, 11, 13, 16, 17}}

\* the destination as transcribed: nothing, a variant, a misspelt variant, a
\* name no place has
Destinations == {EmptyStr, lbn, lkSr, lkSb, byAmdy12, twjnyn}

RECURSIVE Repeat(_, _)
Repeat(word, n) == IF n = 0 THEN << >> ELSE <<word>> \o Repeat(word, n - 1)

\* opening, destination and n filler words, joined by single spaces
Utterance(opening, destination, n) ==
    JoinWith(SelectSeq(<<opening, destination>>, LAMBDA w : Len(w) > 0)
                 \o Repeat(hnA, n),
             <<SP>>)

\* transcripts of other shapes: white space only, Latin capitals, diacritics
\* and white-space runs
OtherTranscripts ==
    {<<SP>>, <<TAB, SP>>, <<"/K", "/S">>,
     <<"l", "a", "b", "n", TAB, SP, "l", "k", "S", "r", SP>>}

Transcripts ==
    {Utterance(o, d, n) : o \in Openings, d \in Destinations, n \in 0..MaxFill}
        \cup OtherTranscripts

LLMIds == {1, 3, EXTERNAL_ID}
LLMConfidences ==
    {Zero, Frac(6, 10), Frac(85, 100), Frac(9, 10), Frac(3, 2)}

\* what the chat completion yields: a parsed JSON answer, or an error
LLMApiOutcomes ==
    {[kind |-> "answer", result |-> LLMMatchResult(FALSE, i, c)] :
        i \in LLMIds, c \in LLMConfidences}
    \cup {[kind |-> "answer", result |-> LLMMatchResult(TRUE, 0, c)] :
             c \in {Zero, Frac(9, 10)}}
    \cup {[kind |-> "error"]}

GoogleMapsPlaces == {[name |-> <<"/S", "/k">>, lat |-> 179, lon |-> 0 - 157]}

\* what the Places text search yields
GoogleApiOutcomes ==
    {[kind |-> "found", result |-> g] : g \in GoogleMapsPlaces}
    \cup {[kind |-> "noApiKey"], [kind |-> "noResults"], [kind |-> "error"]}

\* how the awaited matchWithLLM promise settles
LLMOutcomes == {matchWithLLM(api) : api \in LLMApiOutcomes} \cup {Threw}
\* how the awaited searchGoogleMaps promise settles
GoogleOutcomes == {searchGoogleMaps(api) : api \in GoogleApiOutcomes} \cup {Threw}

NotSettled == [kind |-> "none", failed |-> FALSE, result |-> Null]

-----------------------------------------------------------------------------
(* resolveDestination as a state machine, one call at a time *)

VARIABLES
    places,         \* the gazetteer, loaded once
    pc,             \* "idle", "awaitLLM", "awaitGoogle" or "done"
    transcript,     \* the transcript of the call
    best,           \* bestScore and bestMatch after the scoring loop
    invoked,        \* the collaborator calls the call has made, in order
    pending,        \* the collaborators whose promise has not settled
    llmOutcome,     \* how matchWithLLM settled
    googleOutcome,  \* how searchGoogleMaps settled
    result,         \* the value the call resolved with
    raised,         \* TRUE when the call rejected instead
    evaluation,     \* a call of an exported pure function, and its value
    request,        \* the POST /api/destination-from-audio being handled
    response,       \* the response sent for it
    calls,          \* resolveDestination calls running at the same time
    config,         \* rateLimitWindowMs and rateLimitMax of config/env
    clock,          \* Date.now(), in ms since the process started
    buckets,        \* the Map of rateLimit.ts: client key -> {count, resetAt}
    handled         \* what rateLimit did with each request, in order

resolverVars == <<places, pc, transcript, best, invoked, pending, llmOutcome,
                  googleOutcome, result, raised>>
routeVars == <<request, response>>
limiterVars == <<config, clock, buckets, handled>>

vars == <<resolverVars, evaluation, routeVars, calls, limiterVars>>

\* no pure function is being called
NoEvaluation == [fn |-> "none"]
\* no request is being handled, nothing has been sent
NoRequest == [phase |-> "none"]
NoResponse == [status |-> 0]
\* no concurrent call is running
NoCalls == << >>

\* RATE_LIMIT_WINDOW_MS || '60000' and RATE_LIMIT_MAX || '60'
DefaultConfig == [rateLimitWindowMs |-> 60000, rateLimitMax |-> 60]
\* new Map()
NoBuckets == [key \in {} |-> 0]
\* no request has reached rateLimit
LimiterIdle ==
    /\ config = DefaultConfig
    /\ clock = 0
    /\ buckets = NoBuckets
    /\ handled = << >>

\* what the specification of resolveDestination leaves alone
outsideResolver == <<evaluation, routeVars, calls, limiterVars>>

NoBest == [bestScore |-> Zero, bestMatch |-> Null]

Init ==
    /\ places \in Gazetteers
    /\ pc = "idle"
    /\ transcript = EmptyStr
    /\ best = NoBest
    /\ invoked = << >>
    /\ pending = {}
    /\ llmOutcome = NotSettled
    /\ googleOutcome = NotSettled
    /\ result = Null
    /\ raised = FALSE
    /\ evaluation = NoEvaluation
    /\ request = NoRequest
    /\ response = NoResponse
    /\ calls = NoCalls
    /\ LimiterIdle

\* the call ends: with a value, or rejecting
Finish(step) ==
    /\ pc' = "done"
    /\ result' = step.value
    /\ raised' = (step.next = "throw")

\* resolveDestination(t, places) up to its first await, or to its return
Resolve(t) ==
    /\ pc = "idle"
    /\ transcript' = t
    /\ UNCHANGED <<places, llmOutcome, googleOutcome>>
    /\ IF EarlyNull(t, places)
       THEN /\ Finish([next |-> "return", value |-> Null])
            /\ UNCHANGED <<best, invoked, pending>>
       ELSE LET scored == LocalBest(t, places)
            IN  /\ best' = scored
                /\ IF FuzzyAccepted(scored)
                   THEN /\ Finish([next |-> "return",
                                   value |-> FuzzyResult(scored)])
                        /\ UNCHANGED <<invoked, pending>>
                   ELSE /\ pc' = "awaitLLM"
                        /\ invoked' = Append(invoked, LLMCall(t, places))
                        /\ pending' = pending \cup {"matchWithLLM"}
                        /\ UNCHANGED <<result, raised>>

\* the matchWithLLM promise settles and the call runs on to its next await
\* or to its return
LLMSettles(outcome) ==
    /\ pc = "awaitLLM"
    /\ llmOutcome' = outcome
    /\ UNCHANGED <<places, transcript, best, googleOutcome>>
    /\ LET step == AfterLLM(outcome, places)
       IN  IF step.next = "google"
           THEN /\ pc' = "awaitGoogle"
                /\ invoked' = Append(invoked, GoogleCall(transcript))
                /\ pending' = (pending \ {"matchWithLLM"})
                                  \cup {"searchGoogleMaps"}
                /\ UNCHANGED <<result, raised>>
           ELSE /\ Finish(step)
                /\ pending' = pending \ {"matchWithLLM"}
                /\ UNCHANGED invoked

\* the searchGoogleMaps promise settles and the call returns
GoogleSettles(outcome) ==
    /\ pc = "awaitGoogle"
    /\ googleOutcome' = outcome
    /\ pending' = pending \ {"searchGoogleMaps"}
    /\ Finish(AfterGoogle(outcome, transcript))
    /\ UNCHANGED <<places, transcript, best, invoked, llmOutcome>>

\* the caller has the result; the next call starts from scratch
NextCall ==
    /\ pc = "done"
    /\ pc' = "idle"
    /\ transcript' = EmptyStr
    /\ best' = NoBest
    /\ invoked' = << >>
    /\ pending' = {}
    /\ llmOutcome' = NotSettled
    /\ googleOutcome' = NotSettled
    /\ result' = Null
    /\ raised' = FALSE
    /\ UNCHANGED places

Next ==
    \/ \E t \in Transcripts : Resolve(t) /\ UNCHANGED outsideResolver
    \/ \E outcome \in LLMOutcomes :
           LLMSettles(outcome) /\ UNCHANGED outsideResolver
    \/ \E outcome \in GoogleOutcomes :
           GoogleSettles(outcome) /\ UNCHANGED outsideResolver
    \/ NextCall /\ UNCHANGED outsideResolver

Spec == Init /\ [][Next]_vars

-----------------------------------------------------------------------------
(* Properties of resolveDestination *)

Below(score, hundredths) == score[1] * 100 < hundredths * score[2]
AtLeast(score, hundredths) == score[1] * 100 >= hundredths * score[2]
Exactly(score, hundredths) == score[1] * 100 = hundredths * score[2]

InvokedNames == [i \in 1..Len(invoked) |-> invoked[i].fn]
Returned == pc = "done" /\ ~raised
ReturnedMatch == Returned /\ result /= Null
PlacesOf(placeList) == {placeList[i] : i \in 1..Len(placeList)}
VariantsOf(place) == {place.variants[i] : i \in 1..Len(place.variants)}

\* the semantic stage produced a result the resolver accepts
LLMAnswerAccepted ==
    /\ llmOutcome.kind = "returned"
    /\ ~llmOutcome.result.idIsNull
    /\ AtLeast(llmOutcome.result.confidence, 85)
    /\ \E p \in PlacesOf(places) : p.id = llmOutcome.result.destinationId

\* C1: in one call the collaborator invocations are a prefix of
\* <<matchWithLLM, searchGoogleMaps>>: matchWithLLM is invoked only once the
\* local scoring ended with a best score below 0.75, searchGoogleMaps only once
\* matchWithLLM has settled without an accepted result, each at most once, and
\* never both pending
StagesInSequence ==
    /\ InvokedNames \in {<< >>, <<"matchWithLLM">>,
                         <<"matchWithLLM", "searchGoogleMaps">>}
    /\ Len(invoked) >= 1 =>
           /\ Len(transcript) > 0 /\ Len(places) > 0
           /\ Below(best.bestScore, 75)
    /\ Len(invoked) = 2 =>
           /\ llmOutcome.kind \in {"returned", "threw"}
           /\ "matchWithLLM" \notin pending
           /\ ~LLMAnswerAccepted
    /\ Cardinality(pending) <= 1
    /\ pending \subseteq {InvokedNames[i] : i \in 1..Len(invoked)}
    /\ pc = "awaitLLM" <=> pending = {"matchWithLLM"}
    /\ pc = "awaitGoogle" <=> pending = {"searchGoogleMaps"}

\* both stages ran, one after the other, and the second produced the match
BothFallbacksRan ==
    /\ ReturnedMatch
    /\ InvokedNames = <<"matchWithLLM", "searchGoogleMaps">>
    /\ llmOutcome.kind = "returned" /\ googleOutcome.kind = "returned"

\* C2: a call with an empty transcript or an empty gazetteer returns null at
\* once and invokes neither collaborator
EmptyInputReturnsNull ==
    (pc /= "idle" /\ (transcript = EmptyStr \/ places = << >>)) =>
        /\ pc = "done" /\ ~raised /\ result = Null
        /\ invoked = << >> /\ pending = {}
        /\ llmOutcome = NotSettled /\ googleOutcome = NotSettled

EmptyGazetteerCalled ==
    Returned /\ places = << >> /\ Len(transcript) > 0 /\ result = Null

\* C3: the call never rejects, whatever the collaborators do: it ends with a
\* DestinationMatch or with null
NeverRaises ==
    /\ ~raised
    /\ pc = "done" => result = Null \/ result.kind = "match"

BothCollaboratorsThrew ==
    /\ Returned /\ result = Null
    /\ llmOutcome.kind = "threw" /\ googleOutcome.kind = "threw"

\* C4: a failed semantic stage (an error of the request, a timeout, a
\* rejection) counts as no result: searchGoogleMaps is invoked with the raw
\* transcript and the call returns what the geocoding stage yields
LLMFailureFallsThrough ==
    (llmOutcome.kind /= "none" /\ llmOutcome.failed) =>
        /\ pc \in {"awaitGoogle", "done"} /\ ~raised
        /\ Below(best.bestScore, 75)
        /\ Len(invoked) = 2
        /\ invoked[2].fn = "searchGoogleMaps"
        /\ invoked[2].transcript = transcript
        /\ pc = "done" =>
              IF googleOutcome.kind = "returned" /\ googleOutcome.result /= Null
              THEN /\ result /= Null
                   /\ result.matchedBy = "google"
                   /\ result.place.canonicalName = googleOutcome.result.name
                   /\ result.place.lat = googleOutcome.result.lat
                   /\ result.place.lon = googleOutcome.result.lon
              ELSE result = Null

\* the completion request failed on a transcript that normalization changes,
\* and the geocoding stage produced the match
LLMFailedGoogleFound ==
    /\ ReturnedMatch
    /\ llmOutcome.kind = "returned" /\ llmOutcome.failed
    /\ normalizeText(transcript) /= transcript

\* C5: every returned match carries a matchedBy tag, and the tag names the
\* stage that produced the match
MatchedByNamesStage ==
    ReturnedMatch =>
        /\ result.matchedBy \in {"fuzzy", "llm", "google"}
        /\ result.matchedBy = "fuzzy" =>
              /\ AtLeast(best.bestScore, 75)
              /\ invoked = << >>
              /\ result.place = best.bestMatch.place
        /\ result.matchedBy = "llm" =>
              /\ InvokedNames = <<"matchWithLLM">>
              /\ LLMAnswerAccepted
              /\ result.place.id = llmOutcome.result.destinationId
        /\ result.matchedBy = "google" =>
              /\ InvokedNames = <<"matchWithLLM", "searchGoogleMaps">>
              /\ Below(best.bestScore, 75)
              /\ ~LLMAnswerAccepted
              /\ googleOutcome.kind = "returned"
              /\ googleOutcome.result /= Null

ReturnedByLLM ==
    /\ ReturnedMatch /\ result.matchedBy = "llm"
    /\ Below(best.bestScore, 75)

\* both collaborators settled as their own code lets them: by returning
CollaboratorsReturned ==
    llmOutcome.kind /= "threw" /\ googleOutcome.kind /= "threw"

\* C6: the confidence of every returned match lies in [0, 1] (stated for the
\* calls whose collaborators return)
ConfidenceInUnitInterval ==
    (ReturnedMatch /\ CollaboratorsReturned) =>
        /\ result.confidence[1] >= 0
        /\ result.confidence[1] <= result.confidence[2]

\* C7: a fuzzy match has confidence >= 0.75 and an llm match confidence
\* >= 0.85, and a score of exactly 0.75, or 0.85, is accepted
MeetsOwnThreshold ==
    /\ ReturnedMatch =>
          /\ result.matchedBy = "fuzzy" => AtLeast(result.confidence, 75)
          /\ result.matchedBy = "llm" => AtLeast(result.confidence, 85)
    /\ (Returned /\ Exactly(best.bestScore, 75)) =>
          /\ result /= Null
          /\ result.matchedBy = "fuzzy" /\ Exactly(result.confidence, 75)
    /\ (Returned /\ LLMAnswerAccepted) =>
          /\ result /= Null
          /\ result.matchedBy = "llm"
          /\ result.confidence = llmOutcome.result.confidence

AcceptedAtExactly75 ==
    /\ ReturnedMatch /\ result.matchedBy = "fuzzy"
    /\ Exactly(result.confidence, 75)

\* C8: every returned match, whichever stage produced it, has confidence
\* >= 0.75 (stated for the calls whose collaborators return)
AtLeast75Percent ==
    (ReturnedMatch /\ CollaboratorsReturned) => AtLeast(result.confidence, 75)

\* every variant of every place
AllVariants == UNION {VariantsOf(p) : p \in PlacesOf(AllPlaces)}

\* the normalized forms of the variants of each place
FormsOf ==
    [p \in PlacesOf(AllPlaces) |-> {normalizeText(v) : v \in VariantsOf(p)}]
\* the normalized forms of the variants of the places of the gazetteer
VariantForms == UNION {FormsOf[p] : p \in PlacesOf(places)}
NumTokens(text) == Len(Tokens(text))
SpansOf(text) ==
    LET spans == generateNGrams(Tokens(text), MAX_NGRAM)
    IN  {spans[i] : i \in 1..Len(spans)}

\* C9: a transcript whose normalized form equals the normalized form of a
\* variant of a place of the gazetteer resolves to a fuzzy match of confidence
\* exactly 1.0, whatever the number of tokens, without any fallback
ExactVariantScoresOne ==
    (pc /= "idle" /\ normalizeText(transcript) \in VariantForms) =>
        /\ ReturnedMatch
        /\ result.matchedBy = "fuzzy"
        /\ Exactly(result.confidence, 100)
        /\ invoked = << >>

\* C9 as amended: the normalized form is not empty; the confidence is exactly
\* 1.0 when it has at most four tokens; with more tokens it is at least 0.95,
\* and 1.0 only when one of its spans equals the normalized form of a variant
ExactVariantGate ==
    LET form == normalizeText(transcript)
    IN  (pc /= "idle" /\ form /= EmptyStr /\ form \in VariantForms) =>
            /\ ReturnedMatch
            /\ result.matchedBy = "fuzzy"
            /\ invoked = << >>
            /\ NumTokens(form) <= 4 => Exactly(result.confidence, 100)
            /\ NumTokens(form) > 4 =>
                  /\ AtLeast(result.confidence, 95)
                  /\ Exactly(result.confidence, 100) =>
                         SpansOf(form) \cap VariantForms /= {}

\* a variant of five tokens, said as it is written, matched with 0.95
LongVariantMatched ==
    /\ ReturnedMatch
    /\ normalizeText(transcript) \in VariantForms
    /\ NumTokens(normalizeText(transcript)) > 4
    /\ Exactly(result.confidence, 95)

\* the best local score of one place alone
PlaceScore(place) == LocalBest(transcript, <<place>>).bestScore

\* C10: a transcript that is an intent phrase followed by text containing the
\* normalized form of a variant resolves to a fuzzy match of confidence
\* >= 0.75 without any fallback, and to that place when no variant of another
\* place scores at least as high
IntentPhraseThenVariant ==
    \A i \in 1..Len(INTENT_PHRASES) :
        \A p \in PlacesOf(places) :
            \A v \in VariantsOf(p) :
                (/\ pc /= "idle"
                 /\ StartsWith(transcript, INTENT_PHRASES[i])
                 /\ normalizeText(v) /= EmptyStr
                 /\ Includes(SubSeq(transcript, Len(INTENT_PHRASES[i]) + 1,
                                    Len(transcript)),
                             normalizeText(v))) =>
                    /\ ReturnedMatch
                    /\ result.matchedBy = "fuzzy"
                    /\ AtLeast(result.confidence, 75)
                    /\ invoked = << >>
                    /\ (\A q \in PlacesOf(places) \ {p} :
                            FGt(PlaceScore(p), PlaceScore(q))) =>
                           result.place = p

\* the geocoding stage produced a result
GoogleFound == googleOutcome.kind = "returned" /\ googleOutcome.result /= Null

\* C11: when the local best score is below 0.75, the call returns a match
\* tagged llm exactly when matchWithLLM returned the id of a place of the
\* gazetteer with a confidence >= 0.85; the match carries that place, the
\* reported confidence, the canonical name as matchedVariant, and
\* searchGoogleMaps is not invoked
LLMMatchIffAccepted ==
    (Returned /\ Below(best.bestScore, 75)) =>
        /\ (result /= Null /\ result.matchedBy = "llm") <=> LLMAnswerAccepted
        /\ LLMAnswerAccepted =>
              /\ result.place \in PlacesOf(places)
              /\ result.place.id = llmOutcome.result.destinationId
              /\ result.confidence = llmOutcome.result.confidence
              /\ result.matchedVariant = result.place.canonicalName
              /\ InvokedNames = <<"matchWithLLM">>
              /\ googleOutcome = NotSettled

\* the semantic stage named place 3 with confidence 0.9 and the call returned it
LLMMatchOfPlaceThreeAt90 ==
    /\ ReturnedMatch /\ result.matchedBy = "llm"
    /\ Below(best.bestScore, 75)
    /\ result.place = PlaceKsar
    /\ Exactly(result.confidence, 90)
    /\ result.matchedVariant = lkSr

\* C12: when neither the local nor the semantic stage accepted and
\* searchGoogleMaps returned {name, lat, lon}, the call returns a match of a
\* place with id -1, outside the gazetteer, whose canonicalName and
\* matchedVariant are the returned name, with the returned coordinates,
\* confidence exactly 0.7 and matchedBy google
GoogleResultSynthesized ==
    (Returned /\ GoogleFound) =>
        /\ Below(best.bestScore, 75) /\ ~LLMAnswerAccepted
        /\ result /= Null
        /\ result.place.id = EXTERNAL_ID
        /\ result.place \notin PlacesOf(places)
        /\ result.place.canonicalName = googleOutcome.result.name
        /\ result.matchedVariant = googleOutcome.result.name
        /\ result.place.lat = googleOutcome.result.lat
        /\ result.place.lon = googleOutcome.result.lon
        /\ Exactly(result.confidence, 70)
        /\ result.matchedBy = "google"

\* the semantic stage answered with an id unknown to the gazetteer, and the
\* geocoding stage found a place
GoogleFoundAfterUnknownId ==
    /\ Returned /\ GoogleFound
    /\ llmOutcome.kind = "returned" /\ ~llmOutcome.failed
    /\ ~llmOutcome.result.idIsNull
    /\ AtLeast(llmOutcome.result.confidence, 85)
    /\ result /= Null /\ result.place.id = EXTERNAL_ID

\* C13: the call returns null exactly when the input is empty or no stage
\* accepted: the local best score is below 0.75, the semantic stage returned no
\* gazetteer id with confidence >= 0.85 (or failed), and the geocoding stage
\* returned null or failed
NullIffNoStageAccepted ==
    Returned =>
        (result = Null <=>
            \/ transcript = EmptyStr
            \/ places = << >>
            \/ /\ Below(best.bestScore, 75)
               /\ ~LLMAnswerAccepted
               /\ ~GoogleFound)

\* {destinationId: null, confidence: 0} from the semantic stage, null from the
\* geocoding stage, and null overall
NoStageAccepted ==
    /\ Returned /\ result = Null
    /\ Len(transcript) > 0 /\ Len(places) > 0
    /\ llmOutcome.kind = "returned" /\ ~llmOutcome.failed
    /\ llmOutcome.result.idIsNull /\ Exactly(llmOutcome.result.confidence, 0)
    /\ googleOutcome.kind = "returned" /\ ~googleOutcome.failed
    /\ googleOutcome.result = Null

\* the largest score of a set of scores, 0 for the empty set
MaxScore(scores) ==
    IF scores = {} THEN Zero
    ELSE CHOOSE x \in scores : \A y \in scores : FGe(x, y)

\* the three kinds of score of a transcript against one variant: (a) every
\* candidate span, (b) the variant within the transcript, (c) the transcript
\* within the variant
ScoresAgainst(t, variant) ==
    LET normalizedTranscript == normalizeText(t)
        normalizedVariant == normalizeText(variant)
    IN  {similarity(span, normalizedVariant) :
            span \in SpansOf(normalizedTranscript)}
            \cup {containsSimilarity(normalizedTranscript, normalizedVariant),
                  containsSimilarity(normalizedVariant, normalizedTranscript)}

\* the largest of them, for every transcript and every variant
BestOfVariant ==
    [t \in Transcripts |->
        [v \in AllVariants |-> MaxScore(ScoresAgainst(t, v))]]

\* the (place, variant) pairs of a gazetteer, as index pairs, and their order
PairsOf(placeList) ==
    UNION {{<<i, j>> : j \in 1..Len(placeList[i].variants)} :
              i \in 1..Len(placeList)}
Earlier(p, q) == p[1] < q[1] \/ (p[1] = q[1] /\ p[2] < q[2])
VariantAt(placeList, pair) == placeList[pair[1]].variants[pair[2]]

\* the largest score over all pairs, and the first pair that attains it
TopScore(t, placeList) ==
    MaxScore({BestOfVariant[t][VariantAt(placeList, p)] :
                 p \in PairsOf(placeList)})
FirstAtTop(t, placeList) ==
    CHOOSE p \in PairsOf(placeList) :
        /\ FEq(BestOfVariant[t][VariantAt(placeList, p)],
               TopScore(t, placeList))
        /\ \A q \in PairsOf(placeList) :
               FEq(BestOfVariant[t][VariantAt(placeList, q)],
                   TopScore(t, placeList)) => ~Earlier(q, p)

\* C26: after the scoring loop the best score is the maximum, over every
\* place and variant, of the span similarities and the two containment
\* scores; a fuzzy match carries that maximum as confidence, and the first
\* (place, variant) pair in gazetteer order that attains it
BestIsFirstMaximum ==
    (pc /= "idle" /\ ~EarlyNull(transcript, places)) =>
        /\ FEq(best.bestScore, TopScore(transcript, places))
        /\ (ReturnedMatch /\ result.matchedBy = "fuzzy") =>
               LET first == FirstAtTop(transcript, places)
               IN  /\ FEq(result.confidence, TopScore(transcript, places))
                   /\ result.place = places[first[1]]
                   /\ result.matchedVariant = VariantAt(places, first)

\* two places tie at the best score and the match is the earlier one
FirstOfTiedPairsReturned ==
    /\ ReturnedMatch /\ result.matchedBy = "fuzzy"
    /\ result.place = PlaceLbn
    /\ PlaceKsar \in PlacesOf(places)
    /\ FEq(BestOfVariant[transcript][lkSr], result.confidence)

\* C27: no fallback is attempted for a trivial transcript: a call whose
\* transcript is not empty but normalizes to the empty string (white space
\* only, or nothing but an intent phrase) returns null without invoking
\* matchWithLLM or searchGoogleMaps
TrivialTranscriptReturnsNull ==
    (/\ pc /= "idle"
     /\ Len(transcript) > 0
     /\ normalizeText(transcript) = EmptyStr) =>
        /\ Returned /\ result = Null
        /\ invoked = << >>

-----------------------------------------------------------------------------
(* The exported pure functions, called on their own *)

\* the most tokens, and the largest maxN, generateNGrams is called with
MaxTokens == 6
MaxSpan == 5

\* opening, a second opening, destination and n filler words
Utterance2(first, second, destination, n) ==
    JoinWith(SelectSeq(<<first, second, destination>>, LAMBDA w : Len(w) > 0)
                 \o Repeat(hnA, n),
             <<SP>>)

\* p + ' ' + s
PhraseThenName(p, s) == p \o <<SP>> \o s

\* the strings normalizeText is called with: the transcripts, utterances
\* that begin with two intent phrases in a row, the variants, and every
\* intent phrase in front of every variant
Texts ==
    Transcripts
        \cup {Utterance2(a, b, d, 0) : a \in Openings, b \in Openings,
                                       d \in {lbn, lkSr, twjnyn}}
        \cup AllVariants
        \cup {PhraseThenName(INTENT_PHRASES[i], s) :
                  i \in 1..Len(INTENT_PHRASES), s \in AllVariants}

\* the strings similarity is called with
Words ==
    {EmptyStr, <<SP>>, lbn, lkSr, lkSb, twjnyn, byAmdy12, hnA, nbgy,
     <<"l", "b">>, <<"/k", "/s">>, Utterance(EmptyStr, lkSr, 1)}

\* the strings containsSimilarity is called with: normalized text of 0 to 3
\* tokens
Sentences ==
    {EmptyStr, lbn, lkSb, hnA, <<"l", "b">>,
     Utterance(EmptyStr, lkSr, 1), Utterance(lbn, lkSr, 1),
     Utterance(hnA, lkSb, 1)}

Digit(i) == <<<<"0">>, <<"1">>, <<"2">>, <<"3">>, <<"4">>, <<"5">>, <<"6">>,
              <<"7">>, <<"8">>, <<"9">>>>[(i % 10) + 1]

\* the token lists generateNGrams is called with: 0..MaxTokens tokens, all
\* different, two alternating, or one token repeated
TokenLists ==
    {[i \in 1..n |-> Digit(i % k)] : n \in 0..MaxTokens, k \in {1, 2, 10}}

\* what a call of a pure function leaves alone
outsideFunctions == <<resolverVars, routeVars, calls, limiterVars>>

CallNormalizeText(input) ==
    /\ evaluation = NoEvaluation
    /\ evaluation' = [fn |-> "normalizeText", args |-> <<input>>,
                      value |-> normalizeText(input)]
    /\ UNCHANGED outsideFunctions

CallSimilarity(str1, str2) ==
    /\ evaluation = NoEvaluation
    /\ evaluation' = [fn |-> "similarity", args |-> <<str1, str2>>,
                      value |-> similarity(str1, str2)]
    /\ UNCHANGED outsideFunctions

CallContainsSimilarity(haystack, needle) ==
    /\ evaluation = NoEvaluation
    /\ evaluation' = [fn |-> "containsSimilarity",
                      args |-> <<haystack, needle>>,
                      value |-> containsSimilarity(haystack, needle)]
    /\ UNCHANGED outsideFunctions

CallGenerateNGrams(tokens, maxN) ==
    /\ evaluation = NoEvaluation
    /\ evaluation' = [fn |-> "generateNGrams", args |-> <<tokens, maxN>>,
                      value |-> generateNGrams(tokens, maxN)]
    /\ UNCHANGED outsideFunctions

\* the caller has the value
ReturnValue ==
    /\ evaluation /= NoEvaluation
    /\ evaluation' = NoEvaluation
    /\ UNCHANGED outsideFunctions

FunctionsInit ==
    /\ places = AllPlaces
    /\ pc = "idle"
    /\ transcript = EmptyStr
    /\ best = NoBest
    /\ invoked = << >>
    /\ pending = {}
    /\ llmOutcome = NotSettled
    /\ googleOutcome = NotSettled
    /\ result = Null
    /\ raised = FALSE
    /\ evaluation = NoEvaluation
    /\ request = NoRequest
    /\ response = NoResponse
    /\ calls = NoCalls
    /\ LimiterIdle

FunctionsNext ==
    \/ \E input \in Texts : CallNormalizeText(input)
    \/ \E str1 \in Words, str2 \in Words : CallSimilarity(str1, str2)
    \/ \E haystack \in Sentences, needle \in Sentences :
           CallContainsSimilarity(haystack, needle)
    \/ \E tokens \in TokenLists, maxN \in 0..MaxSpan :
           CallGenerateNGrams(tokens, maxN)
    \/ ReturnValue

Functions == FunctionsInit /\ [][FunctionsNext]_vars

Called(fn) == evaluation.fn = fn

\* C14: normalizeText(normalizeText(x)) = normalizeText(x) for every string x,
\* also when x begins with several intent phrases in a row
NormalizeIdempotent ==
    Called("normalizeText") =>
        normalizeText(evaluation.value) = evaluation.value

\* C15: similarity(x, x) = 1.0 for every non-empty x, and similarity is 0
\* whenever an argument is empty, also when both are
SimilarityOfEqualAndEmpty ==
    Called("similarity") =>
        LET str1 == evaluation.args[1]
            str2 == evaluation.args[2]
        IN  /\ (str1 = str2 /\ str1 /= EmptyStr) =>
                   evaluation.value = One
            /\ (str1 = EmptyStr \/ str2 = EmptyStr) =>
                   evaluation.value = Zero

\* similarity("", "") was called and returned 0
SimilarityOfBothEmpty ==
    /\ Called("similarity")
    /\ evaluation.args = <<EmptyStr, EmptyStr>>
    /\ evaluation.value = Zero

\* C16: similarity(a, b) = similarity(b, a) for all strings a and b
SimilaritySymmetric ==
    Called("similarity") =>
        similarity(evaluation.args[2], evaluation.args[1]) = evaluation.value

\* two different strings of different lengths, scored strictly between 0 and 1
SimilarityOfUnequalLengths ==
    /\ Called("similarity")
    /\ Len(evaluation.args[1]) < Len(evaluation.args[2])
    /\ FGt(evaluation.value, Zero) /\ FGt(One, evaluation.value)

RECURSIVE SumOfSpans(_, _, _)
\* sum over n = from..upTo of (N - n + 1)
SumOfSpans(N, from, upTo) ==
    IF from > upTo THEN 0 ELSE (N - from + 1) + SumOfSpans(N, from + 1, upTo)

\* C17: generateNGrams over N tokens with maximum length M returns exactly
\* sum over n = 1..min(M, N) of (N - n + 1) spans, for every N >= 0 and M >= 0
NGramCount ==
    Called("generateNGrams") =>
        LET N == Len(evaluation.args[1])
            M == evaluation.args[2]
        IN  Len(evaluation.value) = SumOfSpans(N, 1, IF M < N THEN M ELSE N)

\* six tokens and maximum length 4: 6 + 5 + 4 + 3 = 18 spans
EighteenSpansOfSixTokens ==
    /\ Called("generateNGrams")
    /\ Len(evaluation.args[1]) = 6 /\ evaluation.args[2] = 4
    /\ Len(evaluation.value) = 18

\* where the span of length n that starts at offset i stands in the output
\* for L tokens: after all shorter spans and the spans of length n that start
\* earlier
SpanIndex(L, n, i) == SumOfSpans(L, 1, n - 1) + i + 1

\* C23: generateNGrams returns every contiguous token subsequence of length
\* 1..min(N, L), for every start offset, joined with single spaces, ordered
\* by increasing span length and then by increasing start offset, and
\* removes no duplicate
NGramsInOrder ==
    Called("generateNGrams") =>
        LET tokens == evaluation.args[1]
            L == Len(tokens)
            top == IF evaluation.args[2] < L THEN evaluation.args[2] ELSE L
        IN  /\ Len(evaluation.value) = SumOfSpans(L, 1, top)
            /\ \A n \in 1..top :
                   \A i \in 0..(L - n) :
                       evaluation.value[SpanIndex(L, n, i)] =
                           JoinWith(SubSeq(tokens, i + 1, i + n), <<SP>>)

\* tokens that repeat: the same span is returned twice, among spans of two
\* lengths or more
RepeatedSpansKept ==
    /\ Called("generateNGrams")
    /\ Len(evaluation.args[1]) >= 3 /\ evaluation.args[2] >= 2
    /\ \E j \in 1..Len(evaluation.value), k \in 1..Len(evaluation.value) :
           /\ j < k
           /\ evaluation.value[j] = evaluation.value[k]
           /\ Len(evaluation.value[j]) > 1

RECURSIVE EditDistance(_, _)
\* the classic Levenshtein distance, by its defining recurrence on the
\* strings' tails: the least number of single-character insertions, deletions
\* and substitutions that turn a into b
EditDistance(a, b) ==
    IF Len(a) = 0 THEN Len(b)
    ELSE IF Len(b) = 0 THEN Len(a)
    ELSE IF Head(a) = Head(b) THEN EditDistance(Tail(a), Tail(b))
    ELSE 1 + Min3(EditDistance(Tail(a), b), EditDistance(a, Tail(b)),
                  EditDistance(Tail(a), Tail(b)))

\* C24: for all non-empty strings a /= b, similarity(a, b) is
\* 1 - d / max(len(a), len(b)) with d the classic Levenshtein distance of a
\* and b, and every score of similarity lies in [0, 1]
SimilarityIsNormalizedDistance ==
    Called("similarity") =>
        LET a == evaluation.args[1]
            b == evaluation.args[2]
            longest == IF Len(a) >= Len(b) THEN Len(a) ELSE Len(b)
        IN  /\ (Len(a) > 0 /\ Len(b) > 0 /\ a /= b) =>
                   FEq(evaluation.value,
                       Frac(longest - EditDistance(a, b), longest))
            /\ FGe(evaluation.value, Zero)
            /\ FGe(One, evaluation.value)

\* two names of four letters that differ in the last one: one substitution
\* of four, 3/4
SimilarityOfOneSubstitution ==
    /\ Called("similarity")
    /\ evaluation.args = <<lkSr, lkSb>>
    /\ EditDistance(lkSr, lkSb) = 1
    /\ FEq(evaluation.value, Frac(3, 4))

\* the windows of width tokens of a token list, rejoined with single spaces
WindowsOf(tokenList, width) ==
    {JoinWith(SubSeq(tokenList, i, i + width - 1), <<SP>>) :
        i \in 1..(Len(tokenList) - width + 1)}

\* the score by cases: 0.95 for a verbatim occurrence, else 0.9 times the
\* best token (single-token needle) or the best window (several tokens), and
\* 0 for a needle of more tokens than the haystack
ContainmentScore(haystack, needle) ==
    LET haystackTokens == SplitWhitespace(haystack)
        needleTokens == SplitWhitespace(needle)
    IN  IF Includes(haystack, needle) THEN Frac(95, 100)
        ELSE IF Len(needleTokens) = 1
        THEN FMul(Frac(9, 10),
                  MaxScore({similarity(haystackTokens[k], needle) :
                               k \in 1..Len(haystackTokens)}))
        ELSE IF Len(needleTokens) <= Len(haystackTokens)
        THEN FMul(Frac(9, 10),
                  MaxScore({similarity(w, needle) :
                               w \in WindowsOf(haystackTokens,
                                               Len(needleTokens))}))
        ELSE Zero

ScoreAtMost95 ==
    /\ FGe(evaluation.value, Zero)
    /\ FGe(Frac(95, 100), evaluation.value)

\* C25 as stated: containsSimilarity(haystack, needle) is exactly 0.95 when
\* needle occurs verbatim in haystack, else 0.9 times the best token or
\* window similarity, 0 for a needle of more tokens than the haystack, and
\* always in [0, 0.95]
ContainsSimilarityAsStated ==
    Called("containsSimilarity") =>
        /\ FEq(evaluation.value,
               ContainmentScore(evaluation.args[1], evaluation.args[2]))
        /\ ScoreAtMost95

\* C25, amended: containsSimilarity returns 0 when either string is empty,
\* and for two non-empty strings the score of the cases above; it is always
\* in [0, 0.95]
ContainsSimilarityOfNonEmpty ==
    Called("containsSimilarity") =>
        LET haystack == evaluation.args[1]
            needle == evaluation.args[2]
        IN  /\ FEq(evaluation.value,
                   IF Len(haystack) = 0 \/ Len(needle) = 0 THEN Zero
                   ELSE ContainmentScore(haystack, needle))
            /\ ScoreAtMost95

\* a needle of two tokens that is in no window of the haystack verbatim and
\* is closest to the last window
LastWindowScoredBest ==
    /\ Called("containsSimilarity")
    /\ evaluation.args =
           <<Utterance(hnA, lkSb, 1), Utterance(EmptyStr, lkSr, 1)>>
    /\ FEq(evaluation.value, FMul(Frac(9, 10), Frac(7, 8)))

\* normalizeText with its removeIntentPhrases step left out
normalizeWithoutStripping(input) ==
    IF Len(input) = 0 THEN EmptyStr
    ELSE Trim(CollapseWhitespace(
             normalizeArabicChars(removeDiacritics(toLowerCase(Trim(input))))))

\* C21: normalizeText strips at most one leading intent phrase: of a text
\* that begins with a listed phrase followed by another listed phrase, only
\* the leading phrase is removed and the second one remains in the result
OnlyLeadingPhraseStripped ==
    Called("normalizeText") =>
        \A a \in Openings \ {EmptyStr}, b \in Openings \ {EmptyStr},
           d \in {lbn, lkSr, twjnyn} :
            evaluation.args[1] = Utterance2(a, b, d, 0) =>
                evaluation.value =
                    normalizeWithoutStripping(Utterance2(EmptyStr, b, d, 0))

\* C22: for every phrase p of INTENT_PHRASES, the ones written with
\* hamza-Alif or tatweel included, and every place name s that does not
\* begin with a listed phrase, normalizeText(p + ' ' + s) = normalizeText(s)
EveryPhraseStripped ==
    Called("normalizeText") =>
        \A i \in 1..Len(INTENT_PHRASES), s \in AllVariants :
            evaluation.args[1] = PhraseThenName(INTENT_PHRASES[i], s) =>
                evaluation.value = normalizeText(s)

\* s is the end of t
IsSuffix(s, t) ==
    /\ Len(s) <= Len(t)
    /\ SubSeq(t, Len(t) - Len(s) + 1, Len(t)) = s

\* C28: the stripping of an intent phrase removes whole tokens only: the
\* tokens of normalizeText(x) are the last tokens of x normalized without the
\* stripping step
StrippingKeepsWholeTokens ==
    Called("normalizeText") =>
        IsSuffix(Tokens(evaluation.value),
                 Tokens(normalizeWithoutStripping(evaluation.args[1])))

-----------------------------------------------------------------------------
(* asr.ts: transcribeAudio; destinationRoute.ts: POST /destination-from-audio *)

\* JSON values of a response body that compare with null
JsonNumber(n) == [kind |-> "number", value |-> n]
JsonString(text) == [kind |-> "string", value |-> text]

\* the fixed user-facing message of a response without destination
NO_MATCH_MESSAGE ==
    JsonString("lm ntmkn mn tHdyd wjhp fy nwAk$wT. HAwl mrp >xrY bAltwDyH.")

\* transcribeAudio: String(response).trim(), or the error of the
\* transcription request thrown again as 'ASR transcription failed: ...'
transcribeAudio(api) ==
    IF api.kind = "text"
    THEN [kind |-> "returned", text |-> Trim(api.text)]
    ELSE [kind |-> "threw", text |-> EmptyStr]

\* maybeSaveIncomingAudio: null unless config.saveIncomingAudio, else the
\* saved file, and a rejection when the directory or the file cannot be written
maybeSaveIncomingAudio(fs) ==
    IF fs = "disabled" THEN [kind |-> "returned", saved |-> Null]
    ELSE IF fs = "written"
    THEN [kind |-> "returned",
          saved |-> [kind |-> "saved", filename |-> "1_ab_audio.m4a"]]
    ELSE [kind |-> "threw", saved |-> Null]

\* savedAudio: saved ? {filename, downloadPath} : null
SavedAudio(saved) ==
    IF saved = Null THEN Null
    ELSE [kind |-> "savedAudio", filename |-> saved.filename,
          downloadPath |-> <<"/api/debug/audio/", saved.filename>>]

MissingFile ==
    [status |-> 400, body |-> [error |-> JsonString("MISSING_FILE")]]

AsrFailed(saved) ==
    [status |-> 500,
     body |-> [error |-> JsonString("ASR_FAILED"),
               savedAudio |-> SavedAudio(saved)]]

InternalError ==
    [status |-> 500, body |-> [error |-> JsonString("INTERNAL_ERROR")]]

\* the destination of a 200 response; id is null for a Google Maps place
Destination(match) ==
    [kind |-> "destination",
     id |-> IF match.place.id = EXTERNAL_ID THEN Null
            ELSE JsonNumber(match.place.id),
     canonicalName |-> match.place.canonicalName,
     matchedVariant |-> match.matchedVariant,
     lat |-> match.place.lat,
     lon |-> match.place.lon,
     confidence |-> match.confidence,
     matchedBy |-> match.matchedBy]

\* both 200 responses with error: NO_MATCH_MESSAGE
SuccessWithMessage(t, normalizedTranscript, match, saved) ==
    [status |-> 200,
     body |-> [transcript |-> t,
               normalizedTranscript |-> normalizedTranscript,
               destination |-> IF match = Null THEN Null
                               ELSE Destination(match),
               error |-> NO_MATCH_MESSAGE,
               savedAudio |-> SavedAudio(saved)]]

\* the two 200 responses: if (!match) ... else ...
Success(t, normalizedTranscript, match, saved) ==
    IF match = Null
    THEN [status |-> 200,
          body |-> [transcript |-> t,
                    normalizedTranscript |-> normalizedTranscript,
                    destination |-> Null,
                    error |-> NO_MATCH_MESSAGE,
                    savedAudio |-> SavedAudio(saved)]]
    ELSE [status |-> 200,
          body |-> [transcript |-> t,
                    normalizedTranscript |-> normalizedTranscript,
                    destination |-> Destination(match),
                    error |-> Null,
                    savedAudio |-> SavedAudio(saved)]]

\* a catch block that logs, sets transcript = '' and goes on
AfterTranscribeSwallowed(outcome, saved) ==
    IF outcome.kind = "threw"
    THEN [next |-> "resolve", transcript |-> EmptyStr, response |-> NoResponse]
    ELSE [next |-> "resolve", transcript |-> outcome.text,
          response |-> NoResponse]

\* the try/catch around transcribeAudio
AfterTranscribe(outcome, saved) ==
    IF outcome.kind = "threw"
    THEN [next |-> "respond", transcript |-> EmptyStr,
          response |-> AsrFailed(saved)]
    ELSE [next |-> "resolve", transcript |-> outcome.text,
          response |-> NoResponse]

\* the request while it is handled
Handling(phase, saved, asr, t) ==
    [phase |-> phase, saved |-> saved, asr |-> asr, transcript |-> t,
     normalizedTranscript |-> normalizeText(t)]

\* what the transcription request answers with: the text, as the service
\* sends it, or an error
AsrTexts ==
    {Utterance(o, d, n) \o <<SP>> :
        o \in {EmptyStr, INTENT_PHRASES[1], INTENT_PHRASES[16]},
        d \in Destinations, n \in 0..1}
      \cup {<<SP, TAB>>, <<TAB>> \o lkSr}
AsrApiOutcomes ==
    {[kind |-> "text", text |-> t] : t \in AsrTexts} \cup {[kind |-> "error"]}
AsrOutcomes == {transcribeAudio(api) : api \in AsrApiOutcomes}
SaveOutcomes ==
    {maybeSaveIncomingAudio(fs) : fs \in {"disabled", "written", "failed"}}

\* what handling a request leaves alone
outsideRoute == <<evaluation, calls, limiterVars>>

\* the handler up to its first await, or to the 400 response
Post(hasFile) ==
    /\ request = NoRequest
    /\ IF ~hasFile
       THEN /\ request' = Handling("responded", Null, "none", EmptyStr)
            /\ response' = MissingFile
       ELSE /\ request' = Handling("saving", Null, "none", EmptyStr)
            /\ UNCHANGED response
    /\ UNCHANGED <<resolverVars, outsideRoute>>

\* maybeSaveIncomingAudio settles; a rejection reaches the outer catch
SaveSettles(outcome) ==
    /\ request.phase = "saving"
    /\ IF outcome.kind = "threw"
       THEN /\ request' = Handling("responded", Null, "none", EmptyStr)
            /\ response' = InternalError
       ELSE /\ request' = Handling("transcribing", outcome.saved, "none",
                                   EmptyStr)
            /\ UNCHANGED response
    /\ UNCHANGED <<resolverVars, outsideRoute>>

\* transcribeAudio settles: the ASR_FAILED response, or normalizeText and
\* resolveDestination up to its first await
TranscriptionSettles(outcome) ==
    /\ request.phase = "transcribing"
    /\ LET step == AfterTranscribe(outcome, request.saved)
           asr == IF outcome.kind = "threw" THEN "failed" ELSE "done"
       IN  IF step.next = "respond"
           THEN /\ request' = Handling("responded", request.saved, asr,
                                       EmptyStr)
                /\ response' = step.response
                /\ UNCHANGED resolverVars
           ELSE /\ request' = Handling("resolving", request.saved, asr,
                                       step.transcript)
                /\ Resolve(step.transcript)
                /\ UNCHANGED response
    /\ UNCHANGED outsideRoute

\* a collaborator of the awaited resolveDestination settles
ResolverLLMSettles(outcome) ==
    /\ request.phase = "resolving"
    /\ LLMSettles(outcome)
    /\ UNCHANGED <<routeVars, outsideRoute>>

ResolverGoogleSettles(outcome) ==
    /\ request.phase = "resolving"
    /\ GoogleSettles(outcome)
    /\ UNCHANGED <<routeVars, outsideRoute>>

\* resolveDestination has settled: the 200 response, or the outer catch
Respond ==
    /\ request.phase = "resolving"
    /\ pc = "done"
    /\ request' = [request EXCEPT !.phase = "responded"]
    /\ response' = IF raised THEN InternalError
                   ELSE Success(request.transcript,
                                request.normalizedTranscript, result,
                                request.saved)
    /\ UNCHANGED <<resolverVars, outsideRoute>>

\* the next request arrives
NextRequest ==
    /\ request.phase = "responded"
    /\ request' = NoRequest
    /\ response' = NoResponse
    /\ pc' = "idle"
    /\ transcript' = EmptyStr
    /\ best' = NoBest
    /\ invoked' = << >>
    /\ pending' = {}
    /\ llmOutcome' = NotSettled
    /\ googleOutcome' = NotSettled
    /\ result' = Null
    /\ raised' = FALSE
    /\ UNCHANGED <<places, outsideRoute>>

RouteInit ==
    /\ places = AllPlaces
    /\ pc = "idle"
    /\ transcript = EmptyStr
    /\ best = NoBest
    /\ invoked = << >>
    /\ pending = {}
    /\ llmOutcome = NotSettled
    /\ googleOutcome = NotSettled
    /\ result = Null
    /\ raised = FALSE
    /\ evaluation = NoEvaluation
    /\ request = NoRequest
    /\ response = NoResponse
    /\ calls = NoCalls
    /\ LimiterIdle

RouteNext ==
    \/ \E hasFile \in BOOLEAN : Post(hasFile)
    \/ \E outcome \in SaveOutcomes : SaveSettles(outcome)
    \/ \E outcome \in AsrOutcomes : TranscriptionSettles(outcome)
    \/ \E outcome \in LLMOutcomes : ResolverLLMSettles(outcome)
    \/ \E outcome \in GoogleOutcomes : ResolverGoogleSettles(outcome)
    \/ Respond
    \/ NextRequest

Route == RouteInit /\ [][RouteNext]_vars

\* C18: every 200 response carries the transcript, normalizedTranscript =
\* normalizeText(transcript), and exactly one of destination and error is not
\* null: error is the fixed message exactly when resolveDestination returned
\* null, and null whenever a destination is present
SuccessResponseShape ==
    response.status = 200 =>
        /\ request.phase = "responded" /\ Returned
        /\ response.body.transcript = transcript
        /\ response.body.normalizedTranscript = normalizeText(transcript)
        /\ (response.body.destination = Null) /= (response.body.error = Null)
        /\ response.body.error = NO_MATCH_MESSAGE <=> result = Null
        /\ response.body.destination /= Null =>
              /\ response.body.error = Null
              /\ response.body.destination.canonicalName
                     = result.place.canonicalName
              /\ response.body.destination.matchedBy = result.matchedBy

\* a 200 response with a destination, for a transcript that normalization
\* changes
DestinationSentForIntentPhrase ==
    /\ response.status = 200
    /\ response.body.destination /= Null
    /\ response.body.normalizedTranscript /= response.body.transcript

\* C19: when transcription fails the request is answered 500 ASR_FAILED, and
\* resolveDestination, and with it every fallback collaborator, is never
\* invoked for it
AsrFailureReported ==
    (request.phase /= "none" /\ request.asr = "failed") =>
        /\ request.phase = "responded"
        /\ response.status = 500
        /\ response.body.error = JsonString("ASR_FAILED")
        /\ pc = "idle" /\ transcript = EmptyStr
        /\ invoked = << >> /\ pending = {}
        /\ llmOutcome = NotSettled /\ googleOutcome = NotSettled

\* transcription failed after the audio was saved, and 500 was sent
AsrFailedAfterSaving ==
    /\ request.phase = "responded" /\ request.asr = "failed"
    /\ response.status = 500
    /\ response.body.savedAudio /= Null

-----------------------------------------------------------------------------
(* resolveDestination called by several requests at once: the calls share  *)
(* the places array and interleave at their await points                   *)

\* the most calls running at the same time
MaxCalls == 2
CallIds == 1..MaxCalls

\* a call that has not started
IdleCall ==
    [pc |-> "idle", transcript |-> EmptyStr, best |-> NoBest,
     invoked |-> << >>, llmOutcome |-> NotSettled,
     googleOutcome |-> NotSettled, result |-> Null, raised |-> FALSE]

\* places.push(place) before the return of the Google Maps match
GazetteerWithExternalPlace(placeList, step) ==
    IF step.value /= [kind |-> "null"]
    THEN Append(placeList, step.value.place)
    ELSE placeList

\* the places array after the geocoding stage: the place built from the
\* Google Maps result is returned to the caller and is not added to the array
GazetteerAfterGoogle(placeList, step) == placeList

\* the transcripts of the concurrent calls: two that match locally, two that
\* go to the fallbacks
ConcurrentTranscripts ==
    {lkSr, Utterance(INTENT_PHRASES[1], twjnyn, 1), hnA,
     Utterance(INTENT_PHRASES[16], lbn, 0)}

ConcurrentLLMOutcomes ==
    {matchWithLLM([kind |-> "answer", result |-> LLMMatchResult(FALSE, 3, Frac(9, 10))]),
     matchWithLLM([kind |-> "answer",
                   result |-> LLMMatchResult(FALSE, EXTERNAL_ID, Frac(9, 10))]),
     matchWithLLM([kind |-> "answer", result |-> LLMMatchResult(TRUE, 0, Zero)]),
     matchWithLLM([kind |-> "error"])}

ConcurrentGoogleOutcomes ==
    {searchGoogleMaps(api) : api \in GoogleApiOutcomes \ {[kind |-> "noApiKey"]}}

\* what the concurrent calls leave alone
outsideCalls ==
    <<pc, transcript, best, invoked, pending, llmOutcome, googleOutcome,
      result, raised, evaluation, routeVars, limiterVars>>

\* the call after the scoring loop: returned, or awaiting matchWithLLM
Scored(call, t, placeList, scored) ==
    IF FuzzyAccepted(scored)
    THEN [call EXCEPT !.transcript = t, !.pc = "done", !.best = scored,
                      !.result = FuzzyResult(scored)]
    ELSE [call EXCEPT !.transcript = t, !.pc = "awaitLLM", !.best = scored,
                      !.invoked = <<LLMCall(t, placeList)>>]

\* resolveDestination(t, placeList) up to its first await, or to its return
Started(call, t, placeList) ==
    IF EarlyNull(t, placeList)
    THEN [call EXCEPT !.transcript = t, !.pc = "done"]
    ELSE Scored(call, t, placeList, LocalBest(t, placeList))

\* call i runs up to its first await, or to its return
CallResolve(i, t) ==
    /\ calls[i].pc = "idle"
    /\ calls' = [calls EXCEPT ![i] = Started(@, t, places)]
    /\ UNCHANGED <<places, outsideCalls>>

\* the matchWithLLM promise of call i settles
CallLLMSettles(i, outcome) ==
    /\ calls[i].pc = "awaitLLM"
    /\ LET step == AfterLLM(outcome, places)
           settled == [calls[i] EXCEPT !.llmOutcome = outcome]
       IN  calls' = [calls EXCEPT ![i] =
               IF step.next = "google"
               THEN [settled EXCEPT
                        !.pc = "awaitGoogle",
                        !.invoked = Append(@, GoogleCall(settled.transcript))]
               ELSE [settled EXCEPT !.pc = "done", !.result = step.value,
                                    !.raised = (step.next = "throw")]]
    /\ UNCHANGED <<places, outsideCalls>>

\* the searchGoogleMaps promise of call i settles
CallGoogleSettles(i, outcome) ==
    /\ calls[i].pc = "awaitGoogle"
    /\ LET step == AfterGoogle(outcome, calls[i].transcript)
       IN  /\ calls' = [calls EXCEPT ![i] =
                   [@ EXCEPT !.googleOutcome = outcome, !.pc = "done",
                             !.result = step.value,
                             !.raised = (step.next = "throw")]]
           /\ places' = GazetteerAfterGoogle(places, step)
    /\ UNCHANGED outsideCalls

\* the caller of call i has the result
CallReturns(i) ==
    /\ calls[i].pc = "done"
    /\ calls' = [calls EXCEPT ![i] = IdleCall]
    /\ UNCHANGED <<places, outsideCalls>>

ConcurrentInit ==
    /\ places = AllPlaces
    /\ pc = "idle"
    /\ transcript = EmptyStr
    /\ best = NoBest
    /\ invoked = << >>
    /\ pending = {}
    /\ llmOutcome = NotSettled
    /\ googleOutcome = NotSettled
    /\ result = Null
    /\ raised = FALSE
    /\ evaluation = NoEvaluation
    /\ request = NoRequest
    /\ response = NoResponse
    /\ calls = [i \in CallIds |-> IdleCall]
    /\ LimiterIdle

ConcurrentNext ==
    \/ \E i \in CallIds, t \in ConcurrentTranscripts : CallResolve(i, t)
    \/ \E i \in CallIds, outcome \in ConcurrentLLMOutcomes :
           CallLLMSettles(i, outcome)
    \/ \E i \in CallIds, outcome \in ConcurrentGoogleOutcomes :
           CallGoogleSettles(i, outcome)
    \/ \E i \in CallIds : CallReturns(i)

Concurrent == ConcurrentInit /\ [][ConcurrentNext]_vars

\* what resolveDestination(t, placeList) returns when it runs alone and its
\* collaborators settle as llm and google
ResultAlone(t, placeList, llm, google) ==
    LET started == Started(IdleCall, t, placeList)
    IN  IF started.pc = "done" THEN started.result
        ELSE IF AfterLLM(llm, placeList).next = "return"
        THEN AfterLLM(llm, placeList).value
        ELSE AfterGoogle(google, t).value

\* C20: calls running concurrently, interleaved at their await points, leave
\* the gazetteer as it was loaded (no place added, removed or modified, no
\* place with id -1 in it), and each call returns what it would return alone
\* with the same collaborator responses
ConcurrentCallsIndependent ==
    /\ places = AllPlaces
    /\ \A p \in PlacesOf(places) : p.id /= EXTERNAL_ID
    /\ \A i \in CallIds :
           calls[i].pc = "done" =>
               /\ ~calls[i].raised
               /\ calls[i].result =
                      ResultAlone(calls[i].transcript, AllPlaces,
                                  calls[i].llmOutcome, calls[i].googleOutcome)

\* call 1 returned a Google Maps place; call 2, started before that, was told
\* id -1 by the semantic stage and found nothing
GoogleMatchBesideUnknownId ==
    /\ calls[1].pc = "done" /\ calls[1].result /= Null
    /\ calls[1].result.matchedBy = "google"
    /\ calls[2].pc = "done" /\ calls[2].result = Null
    /\ calls[2].llmOutcome.kind = "returned"
    /\ ~calls[2].llmOutcome.result.idIsNull
    /\ calls[2].llmOutcome.result.destinationId = EXTERNAL_ID

-----------------------------------------------------------------------------
(* middleware/rateLimit.ts: one bucket per client key *)

\* the most requests that reach rateLimit, and the last clock value
MaxRequests == 4
MaxClock == 3000

\* the addresses of req.ip; "" is a request without one
Ips == {"10.0.0.1", "10.0.0.2", ""}
\* the configurations: parseInt of RATE_LIMIT_WINDOW_MS and RATE_LIMIT_MAX
Configs == [rateLimitWindowMs : {1000, 2500}, rateLimitMax : {0, 1, 2}]
\* how far Date.now() moves between two requests
Advances == {500, 1500}

\* const key = req.ip || 'unknown'
KeyOf(ip) == IF ip = "" THEN "unknown" ELSE ip

\* Math.ceil(a / b), b > 0
Ceil(a, b) == IF a % b = 0 THEN a \div b ELSE (a \div b) + 1

\* Math.max(1, Math.ceil((existing.resetAt - now) / 1000))
RetryAfterSeconds(existing, now) ==
    LET seconds == Ceil(existing.resetAt - now, 1000)
    IN  IF seconds > 1 THEN seconds ELSE 1

\* return next()
PassedOn == [kind |-> "next"]

\* res.setHeader('Retry-After', ...); res.status(429).json({...})
RateLimited(retryAfterSeconds) ==
    [kind |-> "response",
     status |-> 429,
     retryAfter |-> retryAfterSeconds,
     body |-> [error |-> "RATE_LIMITED",
               message |-> "Too many requests. Please try again later.",
               retryAfterSeconds |-> retryAfterSeconds]]

\* buckets.set(key, entry)
SetBucket(map, key, entry) ==
    [k \in (DOMAIN map) \cup {key} |-> IF k = key THEN entry ELSE map[k]]

\* the window test with now > existing.resetAt
ExpiredAfter(map, key, now) ==
    key \notin DOMAIN map \/ now > map[key].resetAt

\* !existing || now >= existing.resetAt
Expired(map, key, now) ==
    key \notin DOMAIN map \/ now >= map[key].resetAt

\* existing.count += 1
Counted(map, key) ==
    [map EXCEPT ![key] = [count |-> @.count + 1, resetAt |-> @.resetAt]]

\* rateLimit(req, res, next): the Map after the call, and what was done with
\* the request
rateLimit(map, cfg, key, now) ==
    IF Expired(map, key, now)
    THEN [buckets |-> SetBucket(map, key,
                                [count |-> 1,
                                 resetAt |-> now + cfg.rateLimitWindowMs]),
          outcome |-> PassedOn]
    ELSE LET counted == Counted(map, key)
         IN  IF counted[key].count > cfg.rateLimitMax
             THEN [buckets |-> counted,
                   outcome |->
                       RateLimited(RetryAfterSeconds(counted[key], now))]
             ELSE [buckets |-> counted, outcome |-> PassedOn]

\* what the rate limiter leaves alone
outsideLimiter == <<resolverVars, evaluation, routeVars, calls>>

\* a request of the address ip reaches the middleware
Request(ip) ==
    /\ Len(handled) < MaxRequests
    /\ buckets' = rateLimit(buckets, config, KeyOf(ip), clock).buckets
    /\ handled' =
           Append(handled,
                  [key |-> KeyOf(ip), now |-> clock,
                   outcome |->
                       rateLimit(buckets, config, KeyOf(ip), clock).outcome])
    /\ UNCHANGED <<config, clock>>
    /\ UNCHANGED outsideLimiter

\* time passes
ClockAdvances(ms) ==
    /\ clock + ms <= MaxClock
    /\ clock' = clock + ms
    /\ UNCHANGED <<config, buckets, handled>>
    /\ UNCHANGED outsideLimiter

RateLimitInit ==
    /\ places = AllPlaces
    /\ pc = "idle"
    /\ transcript = EmptyStr
    /\ best = NoBest
    /\ invoked = << >>
    /\ pending = {}
    /\ llmOutcome = NotSettled
    /\ googleOutcome = NotSettled
    /\ result = Null
    /\ raised = FALSE
    /\ evaluation = NoEvaluation
    /\ request = NoRequest
    /\ response = NoResponse
    /\ calls = NoCalls
    /\ config \in Configs
    /\ clock = 0
    /\ buckets = NoBuckets
    /\ handled = << >>

RateLimitNext ==
    \/ \E ip \in Ips : Request(ip)
    \/ \E ms \in Advances : ClockAdvances(ms)

RateLimit == RateLimitInit /\ [][RateLimitNext]_vars

\* the requests of a key handled since its bucket was created
InWindow(key) ==
    {i \in 1..Len(handled) :
        /\ handled[i].key = key
        /\ handled[i].now >= buckets[key].resetAt - config.rateLimitWindowMs}
PassedInWindow(key) ==
    {i \in InWindow(key) : handled[i].outcome.kind = "next"}

\* C29: for every client key and every rateLimitMax >= 0, at most
\* rateLimitMax requests of the key are passed on between the creation of its
\* bucket and its resetAt, every further request of the window is answered
\* 429 RATE_LIMITED, and a request of another key leaves the bucket as it is
AdmissionsBounded ==
    [][(Len(handled') > Len(handled)) =>
           /\ \A key \in DOMAIN buckets' :
                  /\ Cardinality(PassedInWindow(key)') <= config.rateLimitMax
                  /\ \A i \in InWindow(key)' :
                         Cardinality({j \in InWindow(key)' : j < i})
                                 >= config.rateLimitMax =>
                             /\ handled'[i].outcome.kind = "response"
                             /\ handled'[i].outcome.status = 429
                             /\ handled'[i].outcome.body.error
                                    = "RATE_LIMITED"
           /\ \A key \in DOMAIN buckets :
                  handled'[Len(handled')].key /= key =>
                      /\ key \in DOMAIN buckets'
                      /\ buckets'[key] = buckets[key]]_vars

\* the request handled by this step
Latest == handled'[Len(handled')]

\* C30: the first request of a key at or after the resetAt of its bucket is
\* passed on and opens a fresh window, count 1 and resetAt = now +
\* windowMs, however many requests were passed on or rejected before; and a
\* rejected request leaves resetAt as it was
FreshWindowAfterReset ==
    [][(Len(handled') > Len(handled) /\ Latest.key \in DOMAIN buckets) =>
           /\ clock >= buckets[Latest.key].resetAt =>
                  /\ Latest.outcome = PassedOn
                  /\ buckets'[Latest.key] =
                         [count |-> 1,
                          resetAt |-> clock + config.rateLimitWindowMs]
           /\ Latest.outcome.kind = "response" =>
                  buckets'[Latest.key].resetAt = buckets[Latest.key].resetAt
      ]_vars

\* a key was rejected, and its request at or after resetAt opened a window
AdmittedAgainAfterRejection ==
    /\ Len(handled) >= 3
    /\ \E i \in 1..(Len(handled) - 1) :
           /\ handled[i].key = handled[Len(handled)].key
           /\ handled[i].outcome.kind = "response"
           /\ handled[i].outcome.status = 429
           /\ handled[Len(handled)].now
                  >= handled[i].now + config.rateLimitWindowMs
    /\ handled[Len(handled)].outcome = PassedOn
    /\ buckets[handled[Len(handled)].key] =
           [count |-> 1,
            resetAt |-> handled[Len(handled)].now + config.rateLimitWindowMs]

====
